---- MODULE Spec2Model ----
(***************************************************************************)
(* Request orchestration of the NFL-Counterfactual front end.              *)
(*                                                                         *)
(*   src/unnamed/part_000                   the builder page: onParse,     *)
(*                                          onSimulatePlay, onSimulateDrive *)
(*   src/frontend/src/app/builder/page.tsx  the parse-only builder page    *)
(*                                          (onSubmit) and HealthPage      *)
(*                                                                         *)
(* One page is mounted per behaviour (view).  A handler runs synchronously *)
(* up to its first await (one step: the batched setState calls and the     *)
(* fetch) and resumes when the response arrives (one step: the rest of the *)
(* try block, the catch and the finally).  Between the two steps any other *)
(* event may be handled.  The two awaits of a handler (fetch, res.json())  *)
(* are one step: nothing is written between them.                          *)
(*                                                                         *)
(* Every value the code compares with null is a record with a tag t, so    *)
(* that null and the values are comparable.                                *)
(***************************************************************************)
EXTENDS Integers, Sequences, FiniteSets, TLC

VARIABLES
    view,       \* which page component is mounted
    result,     \* useState<any>(null): the last parse response body
    warning,    \* useState<string | null>(null)
    loading,    \* useState(false)
    sim,        \* useState<SimSummary | null>(null)
    drive,      \* useState<DriveSummary | null>(null)
    inflight,   \* the fetches awaiting their response
    issued,     \* how many fetches the page has issued
    health,     \* HealthPage: where its render is, and the payload it shows
    lastParsed, \* history: the body of the last 2xx JSON parse response received
    last        \* history: the step just taken

vars == <<view, result, warning, loading, sim, drive, inflight, issued,
          health, lastParsed, last>>

\* How many fetches one behaviour issues.
MaxRequests == 3

Null == [t |-> "null"]

Views == {"builder", "parseOnly", "health"}

\* The PlaySpecs the service returns; NoSpec is a body whose spec is
\* missing or falsy.
Specs == {"S1", "S2"}
NoSpec == "none"

\* data.warnings of a parse response (absent behaves as empty).
WarningLists == {<< >>, <<"w1", "w2">>}

\* Non-2xx statuses (res.ok is false).
Statuses == {404, 500}

\* err.message of a rejected fetch; the empty message takes the fallback.
RejectMessages == {"Failed to fetch", ""}

Message(text) == [t |-> "text", text |-> text]

\* `HTTP ${res.status}`
HttpMessage(status) == [t |-> "http", status |-> status]

\* err.message || fallback
OrElse(msg, fallback) ==
    IF msg = Message("") THEN Message(fallback) ELSE msg

\* data.warnings.join(" | ")
Join(ws) == [t |-> "joined", parts |-> ws]

\* Mutant: the guard tests result where the code tests result?.spec.
HasSpecTestsResult(r) == r.t = "data"

\* result?.spec is truthy
HasSpec(r) == r.t = "data" /\ r.spec # NoSpec

\* result?.spec
SpecOf(r) == IF r.t = "data" THEN r.spec ELSE NoSpec

NoPrior == [result |-> Null, sim |-> Null, drive |-> Null]

Step(op, kind, id, outcome, status, solo, prior) ==
    [op |-> op, kind |-> kind, id |-> id, outcome |-> outcome,
     status |-> status, solo |-> solo, prior |-> prior]

\* fetch(...): one more request awaits its response.  solo and prior are
\* history: whether no other request has been outstanding since this one was
\* issued, and, for as long as that is so, the results that were stored when
\* its handler was invoked.
Fetch(kind, spec) ==
    /\ issued < MaxRequests
    /\ issued' = issued + 1
    /\ inflight' =
         {[q EXCEPT !.solo = FALSE, !.prior = NoPrior] : q \in inflight} \cup
         {[id |-> issued + 1, kind |-> kind, spec |-> spec,
           solo |-> inflight = {},
           prior |-> IF inflight = {}
                       THEN [result |-> result, sim |-> sim, drive |-> drive]
                       ELSE NoPrior]}
    /\ last' = Step("start", kind, issued + 1, "none", 0, inflight = {}, NoPrior)

\* What the service may answer to request q.
FailureResponses ==
    {[t |-> "reject", msg |-> m, status |-> 0, body |-> Null] : m \in RejectMessages}
    \cup {[t |-> "status", msg |-> "", status |-> s, body |-> Null] : s \in Statuses}
    \cup {[t |-> "badjson", msg |-> "Unexpected token", status |-> 0, body |-> Null]}

ParseBodies(q) ==
    {Null} \cup
    {[t |-> "data", spec |-> s, warnings |-> w, req |-> q.id] :
        s \in Specs \cup {NoSpec}, w \in WarningLists}

SummaryBodies(q) ==
    {Null, [t |-> "summary", spec |-> q.spec, req |-> q.id]}

Responses(q) ==
    FailureResponses \cup
    {[t |-> "json", msg |-> "", status |-> 0, body |-> b] :
        b \in IF q.kind = "parse" THEN ParseBodies(q) ELSE SummaryBodies(q)}

\* Mutant: the thrown text leaves the status out.
ThrownNoStatus(r) ==
    CASE r.t = "status" -> Message("HTTP error")
      [] OTHER -> Message(r.msg)

\* The error the try block throws on response r, if any.
Thrown(r) ==
    CASE r.t = "status" -> HttpMessage(r.status)
      [] OTHER -> Message(r.msg)

Failed(r) == r.t \in {"reject", "status", "badjson"}

\* How the handler leaves its try block on response r.
Outcome(r) == IF r.t = "json" /\ r.body = Null THEN "jsonnull" ELSE r.t

Received(q, r) ==
    /\ q \in inflight
    /\ r \in Responses(q)
    /\ inflight' = inflight \ {q}
    /\ last' = Step("done", q.kind, q.id, Outcome(r), r.status, q.solo, q.prior)
    /\ UNCHANGED <<view, issued, health>>

----------------------------------------------------------------------------
(* onParse, src/unnamed/part_000:58-81 *)

\* Mutant: a new parse keeps the simulation summary of the old spec.
ParseBeginKeepsSim ==
    /\ loading' = TRUE
    /\ warning' = Null
    /\ result' = Null
    /\ drive' = Null
    /\ UNCHANGED sim

ParseBegin ==
    /\ loading' = TRUE
    /\ warning' = Null
    /\ result' = Null
    /\ sim' = Null
    /\ drive' = Null

onParse ==
    /\ view = "builder"
    /\ ParseBegin
    /\ Fetch("parse", NoSpec)
    /\ UNCHANGED <<view, health, lastParsed>>

\* Mutant: a response is dropped when a later parse is outstanding.
ParseSettleIfCurrent(q, r) ==
    IF \E p \in inflight : p.kind = q.kind /\ p.id > q.id
      THEN UNCHANGED <<result, warning, loading, sim, drive, lastParsed>>
      ELSE /\ IF Failed(r)
                THEN /\ warning' = OrElse(Thrown(r), "Request failed")
                     /\ UNCHANGED <<result, lastParsed>>
                ELSE IF r.body = Null
                THEN /\ result' = Null
                     /\ warning' = Message("Cannot read properties of null")
                     /\ UNCHANGED lastParsed
                ELSE /\ result' = r.body
                     /\ lastParsed' = r.body
                     /\ warning' = IF Len(r.body.warnings) > 0
                                     THEN Join(r.body.warnings) ELSE warning
           /\ loading' = FALSE
           /\ UNCHANGED <<sim, drive>>

\* Lines 72-80 (page.tsx 28-36): the rest of the try block, catch, finally.
ParseSettle(q, r) ==
    /\ IF Failed(r)
         THEN /\ warning' = OrElse(Thrown(r), "Request failed")
              /\ UNCHANGED <<result, lastParsed>>
         ELSE IF r.body = Null
         THEN \* setResult(null), then data.warnings throws a TypeError
              /\ result' = Null
              /\ warning' = OrElse(Message("Cannot read properties of null"),
                                   "Request failed")
              /\ UNCHANGED lastParsed
         ELSE /\ result' = r.body
              /\ lastParsed' = r.body
              /\ warning' = IF Len(r.body.warnings) > 0
                              THEN Join(r.body.warnings) ELSE warning
    /\ loading' = FALSE
    /\ UNCHANGED <<sim, drive>>

onParseDone ==
    \E q \in inflight : \E r \in Responses(q) :
        /\ view = "builder"
        /\ q.kind = "parse"
        /\ Received(q, r)
        /\ ParseSettle(q, r)

----------------------------------------------------------------------------
(* onSimulatePlay, src/unnamed/part_000:83-106 *)

\* Mutant: a misspelt property reads undefined.
RequestSpecTypo == NoSpec

\* The spec the simulate request bodies carry: result.spec.
RequestSpec == SpecOf(result)

SimBegin ==
    /\ loading' = TRUE
    /\ warning' = Null
    /\ sim' = Null
    /\ UNCHANGED <<result, drive>>

\* A handler that returns at its guard: nothing is written or sent.
Return(kind) ==
    /\ last' = Step("noop", kind, 0, "none", 0, FALSE, NoPrior)
    /\ UNCHANGED <<result, warning, loading, sim, drive, inflight, issued>>

onSimulatePlay ==
    /\ view = "builder"
    /\ IF ~HasSpec(result)
         THEN Return("simulate")
         ELSE SimBegin /\ Fetch("simulate", RequestSpec)
    /\ UNCHANGED <<view, health, lastParsed>>

\* Mutant: setLoading(false) ends the try block instead of a finally.
SimSettleNoFinally(q, r) ==
    /\ IF Failed(r)
         THEN /\ warning' = OrElse(Thrown(r), "Sim request failed")
              /\ UNCHANGED <<sim, loading>>
         ELSE /\ sim' = r.body
              /\ loading' = FALSE
              /\ UNCHANGED warning
    /\ UNCHANGED <<result, drive, lastParsed>>

\* Lines 98-105.
SimSettle(q, r) ==
    /\ IF Failed(r)
         THEN /\ warning' = OrElse(Thrown(r), "Sim request failed")
              /\ UNCHANGED sim
         ELSE /\ sim' = r.body
              /\ UNCHANGED warning
    /\ loading' = FALSE
    /\ UNCHANGED <<result, drive, lastParsed>>

onSimulatePlayDone ==
    \E q \in inflight : \E r \in Responses(q) :
        /\ q.kind = "simulate"
        /\ Received(q, r)
        /\ SimSettle(q, r)

----------------------------------------------------------------------------
(* onSimulateDrive, src/unnamed/part_000:108-131 *)

\* Mutant: onSimulateDrive clears the simulation summary too.
DriveBeginClearsSim ==
    /\ loading' = TRUE
    /\ warning' = Null
    /\ drive' = Null
    /\ sim' = Null
    /\ UNCHANGED result

DriveBegin ==
    /\ loading' = TRUE
    /\ warning' = Null
    /\ drive' = Null
    /\ UNCHANGED <<result, sim>>

onSimulateDrive ==
    /\ view = "builder"
    /\ IF ~HasSpec(result)
         THEN Return("drive")
         ELSE DriveBegin /\ Fetch("drive", RequestSpec)
    /\ UNCHANGED <<view, health, lastParsed>>

\* Mutant: the catch block discards the parse result.
DriveSettleCatchClears(q, r) ==
    /\ IF Failed(r)
         THEN /\ warning' = OrElse(Thrown(r), "Drive sim failed")
              /\ result' = Null
              /\ UNCHANGED drive
         ELSE /\ drive' = r.body
              /\ UNCHANGED <<warning, result>>
    /\ loading' = FALSE
    /\ UNCHANGED <<sim, lastParsed>>

\* Lines 123-130.
DriveSettle(q, r) ==
    /\ IF Failed(r)
         THEN /\ warning' = OrElse(Thrown(r), "Drive sim failed")
              /\ UNCHANGED drive
         ELSE /\ drive' = r.body
              /\ UNCHANGED warning
    /\ loading' = FALSE
    /\ UNCHANGED <<result, sim, lastParsed>>

onSimulateDriveDone ==
    \E q \in inflight : \E r \in Responses(q) :
        /\ q.kind = "drive"
        /\ Received(q, r)
        /\ DriveSettle(q, r)

----------------------------------------------------------------------------
(* The parse-only builder page, src/frontend/src/app/builder/page.tsx:5-103. *)
(* It has no sim and no drive state: they stay null.                        *)

SubmitBegin ==
    /\ loading' = TRUE
    /\ warning' = Null
    /\ result' = Null
    /\ UNCHANGED <<sim, drive>>

onSubmit ==
    /\ view = "parseOnly"
    /\ SubmitBegin
    /\ Fetch("parse", NoSpec)
    /\ UNCHANGED <<view, health, lastParsed>>

onSubmitDone ==
    \E q \in inflight : \E r \in Responses(q) :
        /\ view = "parseOnly"
        /\ q.kind = "parse"
        /\ Received(q, r)
        /\ ParseSettle(q, r)

----------------------------------------------------------------------------
(* HealthPage, src/frontend/src/app/builder/page.tsx:105-117: an async     *)
(* component with no try/catch and no res.ok test.  A rejected fetch, or a *)
(* body res.json() cannot parse, rejects the component's promise: nothing  *)
(* is rendered.  A JSON body is rendered whatever the status.              *)

HealthResponses ==
    {[t |-> "reject", status |-> 0], [t |-> "badjson", status |-> 200],
     [t |-> "json", status |-> 200]}
    \cup {[t |-> "status", status |-> s] : s \in Statuses}
    \cup {[t |-> "statusbadjson", status |-> s] : s \in Statuses}

HealthSettle(r) ==
    IF r.t \in {"reject", "badjson", "statusbadjson"}
      THEN health' = [pc |-> "failed", data |-> Null]
      ELSE health' = [pc |-> "rendered",
                      data |-> [t |-> "payload", status |-> r.status]]

HealthPage ==
    \E r \in HealthResponses :
        /\ view = "health"
        /\ health.pc = "fetching"
        /\ HealthSettle(r)
        /\ last' = Step("done", "health", 0,
                        IF r.t = "statusbadjson" THEN "status" ELSE r.t,
                        r.status, TRUE, NoPrior)
        /\ UNCHANGED <<view, result, warning, loading, sim, drive, inflight,
                       issued, lastParsed>>

----------------------------------------------------------------------------
(* The controls that invoke the handlers. *)

\* Mutant: the submit button is never disabled.
SubmitAlwaysEnabled == TRUE

\* <button type="submit" disabled={loading}>: part_000:168-174, page.tsx:74-80
SubmitEnabled == ~loading

\* {result && ( ... <button disabled={loading}> ... )}: part_000:183, 213-231
SimulateEnabled == result # Null /\ ~loading

Init ==
    /\ view \in Views
    /\ result = Null
    /\ warning = Null
    /\ loading = FALSE
    /\ sim = Null
    /\ drive = Null
    /\ inflight = {}
    /\ issued = 0
    /\ health = [pc |-> IF view = "health" THEN "fetching" ELSE "none",
                 data |-> Null]
    /\ lastParsed = Null
    /\ last = Step("init", "none", 0, "none", 0, FALSE, NoPrior)

\* A response to some outstanding request arrives.
Complete ==
    \/ onParseDone
    \/ onSimulatePlayDone
    \/ onSimulateDriveDone
    \/ onSubmitDone
    \/ HealthPage

\* The handlers as functions: invoked at any time.
Next ==
    \/ onParse
    \/ onSimulatePlay
    \/ onSimulateDrive
    \/ onSubmit
    \/ onParseDone
    \/ onSimulatePlayDone
    \/ onSimulateDriveDone
    \/ onSubmitDone
    \/ HealthPage

Spec == Init /\ [][Next]_vars

\* Every issued request completes.
FairSpec == Spec /\ WF_vars(Complete)

\* The handlers invoked only through the page's controls.
GuardedNext ==
    \/ SubmitEnabled /\ onParse
    \/ SimulateEnabled /\ onSimulatePlay
    \/ SimulateEnabled /\ onSimulateDrive
    \/ SubmitEnabled /\ onSubmit
    \/ onParseDone
    \/ onSimulatePlayDone
    \/ onSimulateDriveDone
    \/ onSubmitDone
    \/ HealthPage

GuardedSpec == Init /\ [][GuardedNext]_vars

----------------------------------------------------------------------------
(* The properties. *)

Kinds == {"parse", "simulate", "drive"}

\* No parsed spec is stored.
NoSpecStored == IF result = Null THEN TRUE ELSE result.spec = NoSpec

\* The step just taken received a network rejection or a non-2xx status.
FailedStep(l) ==
    l.op = "done" /\ l.kind \in Kinds /\ l.outcome \in {"reject", "status"}

\* C1: a simulate-play or simulate-drive invoked while no parsed spec is
\* stored issues no request and leaves loading, warning, result, sim and
\* drive as they were.
C1_NoSpecNoOp ==
    [][(NoSpecStored /\ (onSimulatePlay \/ onSimulateDrive))
         => UNCHANGED <<loading, warning, result, sim, drive, inflight, issued>>]_vars

\* C1 witness: simulate invoked after a later parse was started and before
\* it succeeded; the request of that parse is still the only one.
C1_Witness ==
    /\ last.op = "noop"
    /\ last.kind = "simulate"
    /\ result = Null
    /\ lastParsed # Null
    /\ loading
    /\ \E q \in inflight : q.kind = "parse" /\ inflight = {q}

\* C2: the step in which a request completes, whatever its outcome, ends
\* with loading false; and when every request completes, loading true leads
\* to loading false.
C2_LoadingCleared ==
    /\ [][(last'.op = "done" /\ last'.kind \in Kinds /\ inflight' # inflight)
            => loading' = FALSE]_vars
    /\ (loading ~> ~loading)

\* C2 witness: a simulate-play request was rejected by the network and
\* loading is false.
C2_Witness ==
    /\ last.op = "done"
    /\ last.kind = "simulate"
    /\ last.outcome = "reject"
    /\ ~loading

\* C3 as stated: after a request fails, loading is false and every result
\* that was stored when the request was started is still stored, unchanged
\* (read, in the claim's favour, for a request that no other one overlapped).
C3_PriorResultsKept ==
    (FailedStep(last) /\ last.solo) =>
        /\ ~loading
        /\ last.prior.result # Null => result = last.prior.result
        /\ last.prior.sim # Null => sim = last.prior.sim
        /\ last.prior.drive # Null => drive = last.prior.drive

\* What a failed request of each kind leaves of the results stored when it
\* was started, no other request having been outstanding since.
KeptAfterFailure(l) ==
    CASE l.kind = "parse" ->
           result = Null /\ sim = Null /\ drive = Null
      [] l.kind = "simulate" ->
           result = l.prior.result /\ sim = Null /\ drive = l.prior.drive
      [] l.kind = "drive" ->
           result = l.prior.result /\ sim = l.prior.sim /\ drive = Null

\* C3 amended: the step in which a request fails sets loading false and
\* changes none of result, sim and drive; the results of the request's own
\* kind (all three for a parse) were cleared when it started, and those of
\* the other kinds are the ones stored then when no other request has been
\* outstanding since.
C3_FailureKeepsOtherKinds ==
    /\ [][(FailedStep(last') /\ inflight' # inflight)
            => (loading' = FALSE /\ UNCHANGED <<result, sim, drive>>)]_vars
    /\ []((FailedStep(last) /\ last.solo) => KeptAfterFailure(last))

\* C3 witness: a simulate-play failed on its own; the parse result and the
\* drive summary stored before it are in place and sim is empty.
C3_Witness ==
    /\ FailedStep(last)
    /\ last.kind = "simulate"
    /\ last.solo
    /\ ~loading
    /\ result # Null /\ result = last.prior.result
    /\ drive # Null /\ drive = last.prior.drive
    /\ sim = Null

\* The result state of the kind of the step's request is not populated.
NotPopulated(l) ==
    CASE l.kind = "parse" -> result = Null /\ sim = Null /\ drive = Null
      [] l.kind = "simulate" -> sim = Null
      [] l.kind = "drive" -> drive = Null

\* C4 as stated: when the only request in flight receives a non-2xx status,
\* the warning is "HTTP <status>" and the result state of that kind is empty.
C4_OnlyInFlight ==
    (last.op = "done" /\ last.kind \in Kinds /\ last.outcome = "status"
       /\ inflight = {})
    => (warning = HttpMessage(last.status) /\ NotPopulated(last))

\* C4 amended: a non-2xx status always leaves the warning "HTTP <status>";
\* and the result state of that kind is empty when no other request has
\* been outstanding at any time since the failed one was started.
C4_AloneSinceStart ==
    (last.op = "done" /\ last.kind \in Kinds /\ last.outcome = "status")
    => /\ warning = HttpMessage(last.status)
       /\ last.solo => NotPopulated(last)

\* C4 witness: a parse started while a parse result and a simulation
\* summary were stored received a non-2xx status on its own.
C4_Witness ==
    /\ last.op = "done"
    /\ last.kind = "parse"
    /\ last.outcome = "status"
    /\ last.solo
    /\ last.prior.result # Null
    /\ last.prior.sim # Null
    /\ warning = HttpMessage(last.status)
    /\ result = Null /\ sim = Null

\* C5: a request to /simulate or /simulate-drive carries the spec of the
\* parse result stored when it is issued, the handler leaving that result
\* as it is; and a stored parse result is always the body of the last
\* successful parse response received.
C5_SpecRoundTrip ==
    /\ [][(issued' = issued + 1 /\ last'.kind \in {"simulate", "drive"})
            => /\ result' = result
               /\ result # Null
               /\ \E q \in inflight' :
                     /\ q.id = last'.id
                     /\ q.kind = last'.kind
                     /\ q.spec = result.spec
                     /\ q.spec \in Specs]_vars
    /\ [](result # Null => result = lastParsed)

\* C5 witness: two parses overlapped and the first one issued was answered
\* last; the simulate request issued then carries the spec of that answer.
C5_Witness ==
    /\ last.op = "start"
    /\ last.kind = "simulate"
    /\ result # Null
    /\ result.req = 1
    /\ last.id = 3
    /\ \E q \in inflight : q.id = last.id /\ q.spec = result.spec

\* C6: starting a request clears the warning and the result of its kind (a
\* parse clears all three) and leaves the other results alone; a successful
\* response replaces the result of its kind and leaves the other two alone.
C6_StartClearsOwnKind ==
    [][/\ issued' = issued + 1 =>
            /\ warning' = Null
            /\ CASE last'.kind = "parse" ->
                      result' = Null /\ sim' = Null /\ drive' = Null
                 [] last'.kind = "simulate" ->
                      sim' = Null /\ UNCHANGED <<result, drive>>
                 [] last'.kind = "drive" ->
                      drive' = Null /\ UNCHANGED <<result, sim>>
       /\ (last'.op = "done" /\ last'.kind \in Kinds /\ last'.outcome = "json"
             /\ inflight' # inflight) =>
            CASE last'.kind = "parse" ->
                   result'.req = last'.id /\ UNCHANGED <<sim, drive>>
              [] last'.kind = "simulate" ->
                   sim'.req = last'.id /\ UNCHANGED <<result, drive>>
              [] last'.kind = "drive" ->
                   drive'.req = last'.id /\ UNCHANGED <<result, sim>>]_vars

\* C6 witness: a simulate-play was started while a drive summary was
\* stored; sim and the warning are empty, result and drive are in place.
C6_Witness ==
    /\ last.op = "start"
    /\ last.kind = "simulate"
    /\ warning = Null
    /\ sim = Null
    /\ result # Null
    /\ drive # Null

\* C7 as stated: whatever request fails, with a network error or a non-2xx
\* status, on whatever page, a warning is shown and the page is rendered.
C7_EveryFailureBecomesWarning ==
    (last.op = "done" /\ last.outcome \in {"reject", "status"})
    => (warning # Null /\ health.pc # "failed")

\* C8: through the controls, at most one request of each kind is
\* outstanding.
C8_OnePerKind ==
    \A k \in Kinds : Cardinality({q \in inflight : q.kind = k}) <= 1

\* C8 witness: the third request of a page, a simulate-drive, is
\* outstanding and the buttons are disabled.
C8_Witness ==
    /\ issued = MaxRequests
    /\ loading
    /\ \E q \in inflight : q.kind = "drive"

\* C9: a response is applied whatever has been issued since its request:
\* the completion step ends with loading false, a JSON body is stored as
\* the result of that kind, and a non-2xx status is the warning.
C9_EveryResponseApplied ==
    (last.op = "done" /\ last.kind \in Kinds) =>
        /\ ~loading
        /\ last.outcome = "status" => warning = HttpMessage(last.status)
        /\ last.outcome = "reject" => warning # Null
        /\ last.outcome = "json" =>
             CASE last.kind = "parse" -> result # Null /\ result.req = last.id
               [] last.kind = "simulate" -> sim # Null /\ sim.req = last.id
               [] last.kind = "drive" -> drive # Null /\ drive.req = last.id

\* C9 witness: the answer to a superseded parse is stored as result and
\* loading is false while the parse issued after it is still outstanding.
C9_Witness ==
    /\ last.op = "done"
    /\ last.kind = "parse"
    /\ last.outcome = "json"
    /\ result # Null /\ result.req = last.id
    /\ ~loading
    /\ \E p \in inflight : p.kind = "parse" /\ p.id > last.id

\* C10: through the controls, a stored simulation or drive summary answers
\* a request that carried the spec of the parse result now stored.
C10_SummariesOfStoredSpec ==
    /\ sim # Null => (result # Null /\ sim.spec = result.spec)
    /\ drive # Null => (result # Null /\ drive.spec = result.spec)

\* C10 witness: both summaries are stored beside the parse result.
C10_Witness ==
    /\ result # Null
    /\ sim # Null
    /\ drive # Null

====
